---- MODULE Spec2Model ----
(***************************************************************************)
(* Stochastic Lanczos quadrature (include/_lanczos/lanczos.h):             *)
(*   lanczos_recurrence  - Paige A1 three-term recurrence, rolling basis   *)
(*   lanczos_quadrature  - Ritz values / weights of the tridiagonal        *)
(*   slq                 - OpenMP Monte-Carlo driver                       *)
(*                                                                         *)
(* The scalar kind F is modelled as a fixed-point number with FracBits     *)
(* fractional bits (the integer x stands for x / SCALE), every operation   *)
(* rounding to the nearest representable value, together with the three    *)
(* non-finite values NaN, +Inf, -Inf of IEEE-754.                          *)
(***************************************************************************)
EXTENDS Integers, Sequences, FiniteSets, TLC

\* ------------------------------------------------------------------ bounds
N == 3            \* order n of the operator A (A.shape() = (N, N))
FracBits == 5     \* fractional bits of the fixed-point model of F
MaxK == 3         \* largest lanczos_degree k enumerated
MaxNv == 3        \* largest number of probes nv enumerated
MaxChunkNv == 30      \* largest nv for which line 145 alone is evaluated
MaxChunkThreads == 5  \* largest num_threads for which line 145 alone is evaluated
MaxThreads == 2   \* largest num_threads enumerated

SCALE == 2 ^ FracBits

\* ------------------------------------------------------- scalar kind F
\* the finite range is |x| < 2^14: sums of N squares stay below 2^31
PInf == 2 ^ 14
NInf == 0 - PInf
NaN == PInf + 1

IsNaN(x) == x = NaN
IsInf(x) == x = PInf \/ x = NInf
IsFinite(x) == ~IsNaN(x) /\ ~IsInf(x)

Abs(x) == IF x < 0 THEN 0 - x ELSE x
Sgn(x) == IF x < 0 THEN 0 - 1 ELSE IF x > 0 THEN 1 ELSE 0

\* a / b rounded to nearest, half away from zero (b # 0)
RoundDiv(a, b) == Sgn(a) * Sgn(b) * ((2 * Abs(a) + Abs(b)) \div (2 * Abs(b)))

\* overflow of the finite range gives an infinity
Clamp(x) == IF x >= PInf THEN PInf ELSE IF x <= NInf THEN NInf ELSE x

RECURSIVE IsqrtIn(_, _, _)
IsqrtIn(x, lo, hi) ==
  IF lo >= hi THEN lo
  ELSE LET mid == (lo + hi + 1) \div 2
       IN IF mid * mid <= x THEN IsqrtIn(x, mid, hi) ELSE IsqrtIn(x, lo, mid - 1)

\* floor of the square root of a natural number below 2^31
Isqrt(x) == IsqrtIn(x, 0, 46340)

FNeg(a) == IF IsNaN(a) THEN NaN ELSE IF a = PInf THEN NInf ELSE IF a = NInf THEN PInf ELSE 0 - a

FAdd(a, b) ==
  IF IsNaN(a) \/ IsNaN(b) THEN NaN
  ELSE IF IsInf(a) /\ IsInf(b) THEN (IF a = b THEN a ELSE NaN)
  ELSE IF IsInf(a) THEN a
  ELSE IF IsInf(b) THEN b
  ELSE Clamp(a + b)

FSub(a, b) == FAdd(a, FNeg(b))

FMul(a, b) ==
  IF IsNaN(a) \/ IsNaN(b) THEN NaN
  ELSE IF IsInf(a) \/ IsInf(b)
       THEN (IF a = 0 \/ b = 0 THEN NaN
             ELSE IF Sgn(a) * Sgn(b) > 0 THEN PInf ELSE NInf)
  ELSE Clamp(RoundDiv(a * b, SCALE))

FDiv(a, b) ==
  IF IsNaN(a) \/ IsNaN(b) THEN NaN
  ELSE IF IsInf(a) /\ IsInf(b) THEN NaN
  ELSE IF IsInf(a) THEN (IF Sgn(a) * Sgn(b) >= 0 THEN PInf ELSE NInf)
  ELSE IF IsInf(b) THEN 0
  ELSE IF b = 0 THEN (IF a = 0 THEN NaN ELSE IF a > 0 THEN PInf ELSE NInf)
  ELSE Clamp(RoundDiv(a * SCALE, b))

FSqrt(a) ==
  IF IsNaN(a) \/ a < 0 THEN NaN
  ELSE IF a = PInf THEN PInf
  ELSE Isqrt(a * SCALE)

\* a < b of IEEE-754: false as soon as one side is NaN
FLess(a, b) == ~IsNaN(a) /\ ~IsNaN(b) /\ a < b

\* ------------------------------------------------------------- vectors
\* A vector is a tuple of N scalars.
Idx == 1..N

RECURSIVE Rep(_, _)
Rep(len, x) == IF len = 0 THEN <<>> ELSE Append(Rep(len - 1, x), x)

ZeroVec == Rep(N, 0)

VecAllFinite(v) == \A i \in Idx : IsFinite(v[i])

RECURSIVE ExactDot(_, _, _)
ExactDot(u, v, i) == IF i = 0 THEN 0 ELSE u[i] * v[i] + ExactDot(u, v, i - 1)

RECURSIVE SpecialDot(_, _, _)
SpecialDot(u, v, i) ==
  IF i = 0 THEN 0 ELSE FAdd(FMul(u[i], v[i]), SpecialDot(u, v, i - 1))

\* u.dot(v): accumulated exactly and rounded once when every entry is finite
Dot(u, v) ==
  IF VecAllFinite(u) /\ VecAllFinite(v)
  THEN Clamp(RoundDiv(ExactDot(u, v, N), SCALE))
  ELSE SpecialDot(u, v, N)

\* v.norm(): sqrt of the squared norm
Norm(v) ==
  IF VecAllFinite(v) THEN Clamp(Isqrt(ExactDot(v, v, N))) ELSE FSqrt(SpecialDot(v, v, N))

RECURSIVE VecScaleTo(_, _, _)
VecScaleTo(a, v, i) ==
  IF i = 0 THEN <<>> ELSE Append(VecScaleTo(a, v, i - 1), FMul(a, v[i]))

RECURSIVE VecSubTo(_, _, _)
VecSubTo(u, v, i) ==
  IF i = 0 THEN <<>> ELSE Append(VecSubTo(u, v, i - 1), FSub(u[i], v[i]))

RECURSIVE VecDivTo(_, _, _)
VecDivTo(v, a, i) ==
  IF i = 0 THEN <<>> ELSE Append(VecDivTo(v, a, i - 1), FDiv(v[i], a))

VecScale(a, v) == VecScaleTo(a, v, N)
VecSub(u, v) == VecSubTo(u, v, N)
VecDiv(v, a) == VecDivTo(v, a, N)

NormalizedBy(v, z) == IF FLess(0, z) THEN VecDiv(v, z) ELSE v

\* Eigen's v.normalized(): v / norm when the squared norm is positive, v otherwise
Normalized(v) == NormalizedBy(v, Norm(v))

\* ------------------------------------------------- LinearOperator
\* The operators enumerated, dense symmetric N x N matrices:
\*   zero, identity, diag = diag(1, .., N), ones = the all-ones matrix
Ops == {"zero", "identity", "diag", "ones"}

Entry(A, i, j) ==
  IF A = "ones" THEN SCALE
  ELSE IF A = "zero" \/ i # j THEN 0
  ELSE IF A = "identity" THEN SCALE
  ELSE i * SCALE

RECURSIVE RowDot(_, _, _, _)
RowDot(A, x, i, j) ==
  IF j = 0 THEN 0 ELSE FAdd(RowDot(A, x, i, j - 1), FMul(Entry(A, i, j), x[j]))

RECURSIVE MatVecTo(_, _, _)
MatVecTo(A, x, i) ==
  IF i = 0 THEN <<>> ELSE Append(MatVecTo(A, x, i - 1), RowDot(A, x, i, N))

\* A.matvec(x, y): y = A x
MatVec(A, x) == MatVecTo(A, x, N)

\* mod(a, m) with positive remainder
mod(a, m) == a % m

\* ----------------------------------------------------- orthogonalizer
RECURSIVE MgsPass(_, _, _, _, _, _)
MgsPass(v, Q, c, orth, ncv, i) ==
  IF i > orth THEN v
  ELSE MgsPass(VecSub(v, VecScale(Dot(Q[mod(c - i, ncv)], v), Q[mod(c - i, ncv)])),
               Q, c, orth, ncv, i + 1)

\* orth_vector(v, Q, c, orth, twice): modified Gram-Schmidt of v against the
\* orth columns mod(c - i, ncv), i = 1..orth, iterated twice when the flag is set
orth_vector(v, Q, c, orth, ncv, twice) ==
  IF twice
  THEN MgsPass(MgsPass(v, Q, c, orth, ncv, 1), Q, c, orth, ncv, 1)
  ELSE MgsPass(v, Q, c, orth, ncv, 1)

\* --------------------------------------------------- lanczos_recurrence
\* A call of lanczos_recurrence is a record:
\*   A, k, rtol, orth, ncv   the arguments passed by value
\*   q                       the storage behind F* q
\*   V                       the storage behind F* V, columns 0..ncv-1
\*   alpha, beta             the storage behind F* alpha, F* beta,
\*                           functions on 0..len-1 (len = the allocated length)
\*   j, pos, pc              loop counter, index triple, control point
\*   log                     the stores to alpha, beta and V, in program order
\*   matvecs                 the number of A.matvec calls made
\*   alpha0, beta0           alpha and beta as they were at entry
\*   below                   the first step whose beta[j+1] was below the
\*                           tolerance, -1 when there was none
\*   resid                   v.norm() as computed by the latest step
\*   foreign                 <<j, column>>: the re-orthogonalization of step j
\*                           read a column that this call has not written and
\*                           that is not all zeros
\*   lv                      the Lanczos vectors q_0, q_1, .. the call has
\*                           produced, in order (lv[m + 1] is q_m)

BufLen(buf) == Cardinality(DOMAIN buf)

\* *(p + idx) = val; a store past the allocation does not land in the buffer
StoreAt(buf, idx, val) == IF idx \in DOMAIN buf THEN [buf EXCEPT ![idx] = val] ELSE buf

\* residual_tol = sqrt(n) * lanczos_rtol
ResidualTol(rtol) == FMul(FSqrt(N * SCALE), rtol)

\* the work vector v is a map of q's storage: a store to v is a store to q
StoreVKeepsQ(st, v) == st
StoreV(st, v) == [st EXCEPT !.q = v]

\* the loop is left when the residual is below the tolerance or at the last step
BreakAtLastStepOnly(b, tol, j, k) == (j + 1) = k
BreakBelowTolOnly(b, tol, j, k) == FLess(b, tol)
BreakCond(b, tol, j, k) == FLess(b, tol) \/ (j + 1) = k

\* lines 27-39: load the normalized start vector into column 0, pos = (ncv-1, 0, 1)
lanczos_begin(st) ==
  [st EXCEPT !.V = StoreAt(st.V, 0, Normalized(st.q)),
             !.pos = <<st.ncv - 1, 0, 1>>,
             !.j = 0,
             !.log = <<<<"V", 0>>>>,
             !.matvecs = 0,
             !.alpha0 = st.alpha,
             !.beta0 = st.beta,
             !.below = 0 - 1,
             !.lv = <<Normalized(st.q)>>,
             !.foreign = {},
             !.pc = IF 0 < st.k THEN "loop" ELSE "returned"]

\* line 56: step j stores the norm to beta[j+1]
BetaIndexAtJ(j) == j
BetaIndex(j) == j + 1

\* lines 63-64: std::rotate(pos.begin(), pos.begin() + 1, pos.end());
\* pos[2] = mod(j+2, ncv)   (pos is <<p, c, n>>, indexed from 1 here)
RotateNextFromJPlusOne(pos, j, ncv) == <<pos[2], pos[3], mod(j + 1, ncv)>>
RotateOnly(pos, j, ncv) == <<pos[2], pos[3], pos[1]>>
Rotate(pos, j, ncv) == <<pos[2], pos[3], mod(j + 2, ncv)>>

\* lines 50-53: the columns orth_vector reads at step j, mod(c - i, ncv) for
\* i = 1..orth, and those of them that hold neither a vector written by this
\* call nor zeros
OrthColumns(st) == { mod(st.pos[2] - i, st.ncv) : i \in 1..st.orth }

WrittenColumns(log) == { log[x][2] : x \in { y \in 1..Len(log) : log[y][1] = "V" } }

ForeignReads(st) ==
  { <<st.j, c>> : c \in { d \in OrthColumns(st) :
                            d \notin WrittenColumns(st.log) /\ st.V[d] # ZeroVec } }

\* lines 56-64: store beta[j+1], then leave the loop or write column n and rotate
StepStore(st, a, v, b) ==
  IF BreakCond(b, ResidualTol(st.rtol), st.j, st.k)
  THEN [StoreV(st, v) EXCEPT
          !.alpha = StoreAt(st.alpha, st.j, a),
          !.beta = StoreAt(st.beta, BetaIndex(st.j), b),
          !.matvecs = st.matvecs + 1,
          !.resid = b,
          !.foreign = st.foreign \cup ForeignReads(st),
          !.below = IF st.below < 0 /\ FLess(b, ResidualTol(st.rtol)) THEN st.j ELSE st.below,
          !.log = st.log \o <<<<"alpha", st.j>>, <<"beta", BetaIndex(st.j)>>>>,
          !.pc = "returned"]
  ELSE [StoreV(st, v) EXCEPT
          !.alpha = StoreAt(st.alpha, st.j, a),
          !.beta = StoreAt(st.beta, BetaIndex(st.j), b),
          !.matvecs = st.matvecs + 1,
          !.resid = b,
          !.foreign = st.foreign \cup ForeignReads(st),
          !.below = IF st.below < 0 /\ FLess(b, ResidualTol(st.rtol)) THEN st.j ELSE st.below,
          !.V = StoreAt(st.V, st.pos[3], VecDiv(v, b)),
          !.lv = Append(st.lv, VecDiv(v, b)),
          !.log = st.log \o <<<<"alpha", st.j>>, <<"beta", BetaIndex(st.j)>>, <<"V", st.pos[3]>>>>,
          !.pos = Rotate(st.pos, st.j, st.ncv),
          !.j = st.j + 1,
          !.pc = IF st.j + 1 < st.k THEN "loop" ELSE "returned"]

\* lines 50-56: re-orthogonalize when orth > 0, then take the norm
StepNorm(st, a, v) == StepStore(st, a, v, Norm(v))

StepOrth(st, a, v) ==
  StepNorm(st, a, IF st.orth > 0
                  THEN orth_vector(v, st.V, st.pos[2], st.orth, st.ncv, TRUE)
                  ELSE v)

\* lines 46-47: alpha[j] = < q_c, v >, v -= alpha[j] q_c
StepProject(st, a, v) == StepOrth(st, a, VecSub(v, VecScale(a, st.V[st.pos[2]])))

StepAlpha(st, v) == StepProject(st, Dot(st.V[st.pos[2]], v), v)

\* lines 40-65: one iteration of the loop; lines 43-45: v = A q_c - beta[j] q_p
lanczos_step(st) ==
  StepAlpha(st, VecSub(MatVec(st.A, st.V[st.pos[2]]),
                       VecScale(st.beta[st.j], st.V[st.pos[1]])))

RECURSIVE LanczosLoop(_)
LanczosLoop(st) == IF st.pc = "loop" THEN LanczosLoop(lanczos_step(st)) ELSE st

\* the whole call
lanczos_recurrence(st) == LanczosLoop(lanczos_begin(st))


\* --------------------------------------------------- lanczos_quadrature
\* The tridiagonal eigen-solver is a black box: the nodes and weights it returns
\* are represented by the data they are computed from, the diagonal
\* alpha[0..k-1] and the sub-diagonal (beta + 1)[0..k-2].
ZeroBuf == [kind |-> "zeros"]

lanczos_quadrature(alpha, beta, k) ==
  LET a == [i \in 0..(k - 1) |-> alpha[i]]
      b == [i \in 0..(k - 2) |-> beta[i + 1]]
  IN [nodes |-> [kind |-> "eigenvalues", a |-> a, b |-> b],
      weights |-> [kind |-> "eigenvectors_row0_squared", a |-> a, b |-> b]]

\* ------------------------------------------- isotropic probe generator
Distributions == <<"Rademacher", "Normal", "SphereUniform">>

\* the raw output of sub-stream tid of the generator seeded with seed, at position pos
RawBits(seed, tid, pos) == (((seed * 5 + tid * 4 + pos * 5 + 4) ^ 2) \div 16) % 4

RademacherEntry(r) == IF r % 2 = 0 THEN SCALE ELSE 0 - SCALE
NormalEntry(r) == ((2 * r - 3) * SCALE) \div 2

RECURSIVE RademacherTo(_, _, _)
RademacherTo(state, tid, i) ==
  IF i = 0 THEN <<>>
  ELSE Append(RademacherTo(state, tid, i - 1),
              RademacherEntry(RawBits(state.seed, tid, state.pos[tid] + i - 1)))

RECURSIVE NormalTo(_, _, _)
NormalTo(state, tid, i) ==
  IF i = 0 THEN <<>>
  ELSE Append(NormalTo(state, tid, i - 1),
              NormalEntry(RawBits(state.seed, tid, state.pos[tid] + i - 1)))

\* generate_isotropic< D, F >(rng, out, n, tid): n samples of sub-stream tid
generate_isotropic(D, state, tid) ==
  [out |-> IF Distributions[D + 1] = "Rademacher" THEN RademacherTo(state, tid, N)
           ELSE IF Distributions[D + 1] = "Normal" THEN NormalTo(state, tid, N)
           ELSE Normalized(NormalTo(state, tid, N)),
   state |-> [state EXCEPT !.pos[tid] = state.pos[tid] + N]]

\* ------------------------------------------------------------------ slq
Workers == 0..(MaxThreads - 1)
Probes == 0..(MaxNv - 1)

VARIABLES
  inp,      \* the arguments of slq: A, nv, dist, k, rtol, orth, ncv, num_threads, seed
  main,     \* the calling thread: "ready", "parallel", "returned", "aborted"
  rng,      \* the random bit generator object: seed and the position of each sub-stream
  sched,    \* the dynamic schedule of the omp for: chunk size and first unassigned iteration
  w,        \* per worker: control point, thread id, iteration i, end of its chunk
  mem,      \* the heap: the block of buffers allocated by each worker
  touched,  \* <<worker, block>>: worker has read or written a buffer of block
  calls,    \* calls[i]: how many times f was invoked with probe index i
  out,      \* out[i]: what the latest invocation of f with index i was given
  gen,      \* gen[i]: how the probe of iteration i was generated
  prev,     \* the previous call of slq: its num_threads and its out
  run,      \* number of calls of slq that have returned
  lz        \* a direct call of lanczos_recurrence

vars == <<inp, main, rng, sched, w, mem, touched, calls, out, gen, prev, run, lz>>

Max(a, b) == IF a > b THEN a ELSE b
Min(a, b) == IF a < b THEN a ELSE b

\* line 145: std::max(int(sqrt(nv / num_threads)), 1)
ChunkSizeWithoutMax(nv, num_threads) == Isqrt(nv \div num_threads)
ChunkSizeRoundedUp(nv, num_threads) == Max(Isqrt((nv + num_threads - 1) \div num_threads), 1)
ChunkSize(nv, num_threads) == Max(Isqrt(nv \div num_threads), 1)

\* lines 154-159: the lengths of the buffers a worker allocates
AlphaLen(k) == k
BetaLen(k) == k

ZeroArray(len) == [i \in 0..(len - 1) |-> 0]

\* the buffers are block-scope variables of the parallel region: each worker
\* allocates its own block
Block(t) == t

NoCall == [pc |-> "none"]

NoBlock == [owner |-> 0 - 1, q |-> <<>>, Q |-> <<>>, alpha |-> <<>>, beta |-> <<>>,
            nodes |-> ZeroBuf, weights |-> ZeroBuf, call |-> NoCall, over |-> FALSE,
            next |-> 0 - 1, into |-> ""]

NoWorker == [pc |-> "off", tid |-> 0 - 1, i |-> 0, hi |-> 0]
NoOut == [tid |-> 0 - 1, block |-> 0 - 1, q |-> <<>>, alpha |-> <<>>, beta |-> <<>>,
          nodes |-> ZeroBuf, weights |-> ZeroBuf]
NoGen == [dist |-> "", tid |-> 0 - 1, draw |-> 0 - 1, q |-> <<>>]

\* rng.initialize(num_threads, seed): every sub-stream restarts from the seed
RngInitialize(state, num_threads, seed) == [seed |-> seed, pos |-> [t \in Workers |-> 0]]

\* the argument tuples enumerated: the admissible ones, orth < ncv <= k, ncv >= 2
Inputs ==
  { [A |-> A, nv |-> nv, dist |-> d, k |-> k, rtol |-> r, orth |-> o, ncv |-> c,
     num_threads |-> nt, seed |-> 0] :
      A \in Ops, nv \in 1..MaxNv, d \in 0..2, k \in 2..MaxK, r \in {0, SCALE \div 8},
      o \in 0..(MaxK - 1), c \in 2..MaxK, nt \in 1..MaxThreads }

Admissible(x) == x.ncv <= x.k /\ x.orth < x.ncv

\* calls with several workers are enumerated for the smallest degree, without
\* re-orthogonalization, for one operator and rtol = 0
Enumerated(x) ==
  \/ x.num_threads = 1
  \/ x.k = 2 /\ x.orth = 0 /\ x.dist = 0 /\ x.A = "ones" /\ x.rtol = 0

InitDriver ==
  /\ main = "ready"
  /\ rng = [seed |-> 0, pos |-> [t \in Workers |-> 0]]
  /\ sched = [chunk |-> 1, next |-> 0]
  /\ w = [t \in Workers |-> NoWorker]
  /\ mem = [b \in Workers |-> NoBlock]
  /\ touched = {}
  /\ calls = [i \in Probes |-> 0]
  /\ out = [i \in Probes |-> NoOut]
  /\ gen = [i \in Probes |-> NoGen]
  /\ prev = [num_threads |-> 0, out |-> [i \in Probes |-> NoOut]]
  /\ run = 0

Init ==
  /\ inp \in {x \in Inputs : Admissible(x) /\ Enumerated(x)}
  /\ InitDriver
  /\ lz = NoCall

Active(t) == t < inp.num_threads

\* what the schedule hands out: the chunk [lo, hi) and the next unassigned iteration
ChunkEnd(lo, chunk, nv) == Min(lo + chunk, nv)
NextUnassigned(lo, chunk, nv) == Min(lo + chunk, nv)

\* the stores of a call that fall outside the buffer they address
OutOfBounds(st) ==
  { st.log[x] : x \in { y \in 1..Len(st.log) :
       \/ st.log[y][1] = "alpha" /\ st.log[y][2] \notin DOMAIN st.alpha
       \/ st.log[y][1] = "beta" /\ st.log[y][2] \notin DOMAIN st.beta
       \/ st.log[y][1] = "V" /\ st.log[y][2] \notin DOMAIN st.V } }

\* line 142: rng.initialize(num_threads, seed)
SeedGenerator(state, args) == RngInitialize(state, args.num_threads, args.seed)

\* lines 141-149: set the thread count, seed the generator, enter the parallel region
EnterParallel(args) ==
  /\ inp' = args
  /\ rng' = SeedGenerator(rng, args)
  /\ sched' = [chunk |-> ChunkSize(args.nv, args.num_threads), next |-> 0]
  /\ w' = [t \in Workers |-> IF t < args.num_threads
                              THEN [pc |-> "alloc", tid |-> t, i |-> 0, hi |-> 0]
                              ELSE NoWorker]
  /\ main' = "parallel"
  /\ calls' = [i \in Probes |-> 0]
  /\ out' = [i \in Probes |-> NoOut]
  /\ gen' = [i \in Probes |-> NoGen]
  /\ touched' = {}

SlqCall ==
  /\ main = "ready"
  /\ EnterParallel(inp)
  /\ UNCHANGED <<mem, prev, run, lz>>

\* what the allocator can place after the beta of worker t: storage of t's own
\* (0 - 1), or a k-entry buffer (alpha or beta) of another worker of the call;
\* the layouts enumerated have at most one beta followed by a buffer of another
\* worker: the beta of thread 0, followed by a buffer of thread 1
Neighbours(t) ==
  {0 - 1} \cup { u \in Workers : t = 0 /\ u = t + 1 /\ Active(u) }

NeighbourBuffers(nb) == IF nb < 0 THEN {""} ELSE {"alpha", "beta"}

\* lines 151-159: omp_get_thread_num and the zero-initialised buffers
Allocate(t) ==
  /\ main = "parallel" /\ w[t].pc = "alloc"
  /\ \E nb \in Neighbours(t) : \E f \in NeighbourBuffers(nb) :
       mem' = [mem EXCEPT ![Block(t)] =
                 [owner |-> t,
                  q |-> ZeroVec,
                  Q |-> [c \in 0..(inp.ncv - 1) |-> ZeroVec],
                  alpha |-> ZeroArray(AlphaLen(inp.k)),
                  beta |-> ZeroArray(BetaLen(inp.k)),
                  nodes |-> ZeroBuf,
                  weights |-> ZeroBuf,
                  call |-> NoCall,
                  over |-> FALSE,
                  next |-> nb,
                  into |-> f]]
  /\ touched' = touched \cup {<<t, Block(t)>>}
  /\ w' = [w EXCEPT ![t].pc = "fetch"]
  /\ UNCHANGED <<inp, main, rng, sched, calls, out, gen, prev, run, lz>>

\* line 162: schedule(dynamic, chunk_size): take the next chunk, or leave the loop
Fetch(t) ==
  /\ main = "parallel" /\ w[t].pc = "fetch"
  /\ IF sched.next < inp.nv
     THEN /\ w' = [w EXCEPT ![t].pc = "gen",
                            ![t].i = sched.next,
                            ![t].hi = ChunkEnd(sched.next, sched.chunk, inp.nv)]
          /\ sched' = [sched EXCEPT !.next = NextUnassigned(sched.next, sched.chunk, inp.nv)]
     ELSE /\ w' = [w EXCEPT ![t].pc = "barrier"]
          /\ sched' = sched
  /\ UNCHANGED <<inp, main, rng, mem, touched, calls, out, gen, prev, run, lz>>

\* line 167: generate_isotropic< 0, F >(rng, q.data(), m, tid)
GenerateInto(t, g) ==
  /\ rng' = g.state
  /\ mem' = [mem EXCEPT ![Block(t)].q = g.out]
  /\ gen' = [gen EXCEPT ![w[t].i] = [dist |-> Distributions[0 + 1], tid |-> w[t].tid,
                                      draw |-> rng.pos[w[t].tid] \div N, q |-> g.out]]

Generate(t) ==
  /\ main = "parallel" /\ w[t].pc = "gen"
  /\ GenerateInto(t, generate_isotropic(0, rng, w[t].tid))
  /\ touched' = touched \cup {<<t, Block(t)>>}
  /\ w' = [w EXCEPT ![t].pc = "lanczos"]
  /\ UNCHANGED <<inp, main, sched, calls, out, prev, run, lz>>

\* the arguments slq passes to lanczos_recurrence for the buffers of block b
CallOn(b) ==
  [A |-> inp.A, k |-> inp.k, rtol |-> inp.rtol, orth |-> inp.orth, ncv |-> inp.ncv,
   q |-> b.q, V |-> b.Q, alpha |-> b.alpha, beta |-> b.beta,
   j |-> 0, pos |-> <<0, 0, 0>>, pc |-> "entry", log |-> <<>>, matvecs |-> 0,
   alpha0 |-> b.alpha, beta0 |-> b.beta, below |-> 0 - 1, resid |-> 0, lv |-> <<>>,
   foreign |-> {}]

\* the buffers of block b after the call res
AfterCall(b, res) ==
  [b EXCEPT !.q = res.q, !.Q = res.V, !.alpha = res.alpha, !.beta = res.beta,
            !.call = res, !.over = b.over \/ OutOfBounds(res) # {}]

\* The store to beta[k] of line 56 falls one entry past a k-entry beta (line 157).
\* Where it lands is fixed by the layout of the heap (mem[b].next): in storage
\* next to the worker's own buffers (padding, the allocator's bookkeeping, or the
\* worker's nodes, which line 173 overwrites), or in entry 0 of the buffer
\* mem[b].into of another worker, when that buffer is live.
StoreStray(heap, from, val) ==
  IF heap[from].next >= 0 /\ heap[heap[from].next].owner = heap[from].next
  THEN IF heap[from].into = "alpha"
       THEN [heap EXCEPT ![heap[from].next].alpha[0] = val]
       ELSE [heap EXCEPT ![heap[from].next].beta[0] = val]
  ELSE heap

StrayTouch(t, res) ==
  IF OutOfBounds(res) # {} /\ mem[Block(t)].next >= 0
  THEN {<<t, mem[Block(t)].next>>}
  ELSE {}

LanczosReturns(t, res) ==
  /\ mem' = IF OutOfBounds(res) = {}
            THEN [mem EXCEPT ![Block(t)] = AfterCall(mem[Block(t)], res)]
            ELSE StoreStray([mem EXCEPT ![Block(t)] = AfterCall(mem[Block(t)], res)],
                            Block(t), res.resid)
  /\ touched' = touched \cup {<<t, Block(t)>>} \cup StrayTouch(t, res)

\* line 170: lanczos_recurrence on the worker's buffers
Lanczos(t) ==
  /\ main = "parallel" /\ w[t].pc = "lanczos"
  /\ LanczosReturns(t, lanczos_recurrence(CallOn(mem[Block(t)])))
  /\ w' = [w EXCEPT ![t].pc = "quad"]
  /\ UNCHANGED <<inp, main, rng, sched, calls, out, gen, prev, run, lz>>

AfterQuadrature(b, r) == [b EXCEPT !.nodes = r.nodes, !.weights = r.weights]

\* line 173: lanczos_quadrature on the worker's buffers
Quadrature(t) ==
  /\ main = "parallel" /\ w[t].pc = "quad"
  /\ mem' = [mem EXCEPT ![Block(t)] =
               AfterQuadrature(mem[Block(t)],
                               lanczos_quadrature(mem[Block(t)].alpha, mem[Block(t)].beta, inp.k))]
  /\ touched' = touched \cup {<<t, Block(t)>>}
  /\ w' = [w EXCEPT ![t].pc = "call"]
  /\ UNCHANGED <<inp, main, rng, sched, calls, out, gen, prev, run, lz>>

\* line 176 and the loop increment: f(i, q, Q, nodes, weights)
Callback(t) ==
  /\ main = "parallel" /\ w[t].pc = "call"
  /\ LET b == mem[Block(t)]
         i == w[t].i
     IN /\ calls' = [calls EXCEPT ![i] = calls[i] + 1]
        /\ out' = [out EXCEPT ![i] = [tid |-> w[t].tid, block |-> Block(t), q |-> b.q,
                                      alpha |-> b.alpha, beta |-> b.beta,
                                      nodes |-> b.nodes, weights |-> b.weights]]
        /\ w' = [w EXCEPT ![t].i = i + 1,
                          ![t].pc = IF i + 1 < w[t].hi THEN "gen" ELSE "fetch"]
  /\ touched' = touched \cup {<<t, Block(t)>>}
  /\ UNCHANGED <<inp, main, rng, sched, mem, gen, prev, run, lz>>

AllLeftLoop == \A u \in Workers : Active(u) => w[u].pc \in {"barrier", "done"}

\* line 183: past the barrier of the omp for, the worker's buffers are freed
Release(t) ==
  /\ main = "parallel" /\ w[t].pc = "barrier" /\ AllLeftLoop
  /\ w' = [w EXCEPT ![t].pc = "done"]
  /\ UNCHANGED <<inp, main, rng, sched, mem, touched, calls, out, gen, prev, run, lz>>

\* freeing a block whose neighbouring heap word was overwritten may end the process
AbortOnFree(t) ==
  /\ main = "parallel" /\ w[t].pc = "barrier" /\ AllLeftLoop
  /\ mem[Block(t)].over
  /\ main' = "aborted"
  /\ UNCHANGED <<inp, rng, sched, w, mem, touched, calls, out, gen, prev, run, lz>>

\* line 184: the parallel region has ended and slq returns
Return ==
  /\ main = "parallel"
  /\ \A u \in Workers : Active(u) => w[u].pc = "done"
  /\ main' = "returned"
  /\ run' = run + 1
  /\ UNCHANGED <<inp, rng, sched, w, mem, touched, calls, out, gen, prev, lz>>

Next ==
  \/ SlqCall
  \/ \E t \in Workers : Allocate(t)
  \/ \E t \in Workers : Fetch(t)
  \/ \E t \in Workers : Generate(t)
  \/ \E t \in Workers : Lanczos(t)
  \/ \E t \in Workers : Quadrature(t)
  \/ \E t \in Workers : Callback(t)
  \/ \E t \in Workers : Release(t)
  \/ \E t \in Workers : AbortOnFree(t)
  \/ Return

Spec == Init /\ [][Next]_vars

\* ------------------------------------------------ slq called a second time
\* the caller calls slq again with the same arguments and num_threads nt
CallAgain(nt) ==
  /\ main = "returned" /\ run = 1
  /\ prev' = [num_threads |-> inp.num_threads, out |-> out]
  /\ EnterParallel([inp EXCEPT !.num_threads = nt])
  /\ UNCHANGED <<mem, run, lz>>

InitRuns ==
  /\ inp \in {x \in Inputs : Admissible(x) /\ x.k = 2 /\ x.orth = 0 /\ x.dist = 0
                                 /\ x.A = "ones" /\ x.nv <= 2}
  /\ InitDriver
  /\ lz = NoCall

NextRuns ==
  \/ Next
  \/ \E nt \in 1..MaxThreads : CallAgain(nt)

SpecRuns == InitRuns /\ [][NextRuns]_vars

\* ------------------------------------ lanczos_recurrence called directly
\* what the caller's buffers hold at entry: zeros, or what an earlier use left
Prior == {"zero", "stale"}

PriorAlpha(prior, len) ==
  [i \in 0..(len - 1) |-> IF prior = "zero" THEN 0 ELSE 3 * SCALE + i]
PriorBeta(prior, len) ==
  [i \in 0..(len - 1) |-> IF prior = "zero" \/ i = 0 THEN 0 ELSE 2 * SCALE + i]
UnitVec(m) == Rep(m - 1, 0) \o <<SCALE>> \o Rep(N - m, 0)
PriorV(prior, ncv) ==
  [c \in 0..(ncv - 1) |-> IF prior = "zero" THEN ZeroVec ELSE UnitVec((c % N) + 1)]

\* start vectors: the zero vector, (1, .., 1) and (1, -1, -1, ..)
StartVectors == {ZeroVec, Rep(N, SCALE), <<SCALE>> \o Rep(N - 1, 0 - SCALE)}

DirectCalls ==
  { [A |-> A, k |-> k, rtol |-> r, orth |-> o, ncv |-> c, q |-> q,
     V |-> PriorV(pr, c), alpha |-> PriorAlpha(pr, k), beta |-> PriorBeta(pr, k + e),
     j |-> 0, pos |-> <<0, 0, 0>>, pc |-> "entry", log |-> <<>>, matvecs |-> 0,
     alpha0 |-> PriorAlpha(pr, k), beta0 |-> PriorBeta(pr, k + e), below |-> 0 - 1,
     resid |-> 0, lv |-> <<>>, foreign |-> {}] :
      A \in Ops, k \in 2..MaxK, r \in {0, SCALE \div 8}, o \in 0..(MaxK - 1), c \in 2..MaxK,
      q \in StartVectors, pr \in Prior, e \in 0..1 }

InitLanczos ==
  /\ lz \in {x \in DirectCalls : Admissible(x)}
  /\ inp = [A |-> lz.A, nv |-> 1, dist |-> 0, k |-> lz.k, rtol |-> lz.rtol, orth |-> lz.orth,
            ncv |-> lz.ncv, num_threads |-> 1, seed |-> 0]
  /\ InitDriver

LzBegin ==
  /\ lz.pc = "entry"
  /\ lz' = lanczos_begin(lz)
  /\ UNCHANGED <<inp, main, rng, sched, w, mem, touched, calls, out, gen, prev, run>>

LzStep ==
  /\ lz.pc = "loop"
  /\ lz' = lanczos_step(lz)
  /\ UNCHANGED <<inp, main, rng, sched, w, mem, touched, calls, out, gen, prev, run>>

NextLanczos == LzBegin \/ LzStep

SpecLanczos == InitLanczos /\ [][NextLanczos]_vars

\* ------------------------------------------- the chunk size of line 145
\* line 145 evaluated for a wider range of nv and num_threads than the calls
\* above run to the end; main = "sized" once chunk_size is computed
InitChunk ==
  /\ inp \in { [A |-> "identity", nv |-> nv, dist |-> 0, k |-> 2, rtol |-> 0, orth |-> 0,
                 ncv |-> 2, num_threads |-> nt, seed |-> 0] :
                  nv \in 1..MaxChunkNv, nt \in 1..MaxChunkThreads }
  /\ InitDriver
  /\ lz = NoCall

ComputeChunkSize ==
  /\ main = "ready"
  /\ main' = "sized"
  /\ sched' = [chunk |-> ChunkSize(inp.nv, inp.num_threads), next |-> 0]
  /\ UNCHANGED <<inp, rng, w, mem, touched, calls, out, gen, prev, run, lz>>

NextChunk == ComputeChunkSize

SpecChunk == InitChunk /\ [][NextChunk]_vars

\* =============================================================== claims
ProbesOf(x) == 0..(x.nv - 1)
Produced(o) == <<o.q, o.alpha, o.beta, o.nodes, o.weights>>
AllZero(buf) == \A i \in DOMAIN buf : buf[i] = 0
SecondCallReturned == main = "returned" /\ run = 2

\* C1: two calls of slq with the same arguments, seed and num_threads give every
\* probe index i the same (q, alpha, beta, theta, tau), whatever the schedule did.
C1_SameRunsSameOutputs ==
  (SecondCallReturned /\ prev.num_threads = inp.num_threads)
    => \A i \in ProbesOf(inp) : Produced(out[i]) = Produced(prev.out[i])

\* C2: the worker's alpha, beta, nodes and weights are all zero whenever
\* lanczos_recurrence is about to start for a probe, the later probes included.
C2_BuffersZeroAtStart ==
  \A t \in Workers :
    (main = "parallel" /\ w[t].pc = "lanczos")
      => /\ AllZero(mem[Block(t)].alpha)
         /\ AllZero(mem[Block(t)].beta)
         /\ mem[Block(t)].nodes = ZeroBuf
         /\ mem[Block(t)].weights = ZeroBuf

\* C3: a worker's beta buffer has k+1 entries and its alpha buffer k, and every
\* alpha and beta index a call of lanczos_recurrence stores to lies inside them.
C3_StoresInsideBuffers ==
  \A b \in Workers :
    mem[b].call.pc = "returned"
      => /\ BufLen(mem[b].beta) = inp.k + 1
         /\ BufLen(mem[b].alpha) = inp.k
         /\ OutOfBounds(mem[b].call) = {}

\* C4: no probe index is handed to f twice, and when slq returns every index in
\* [0, nv) has been handed to f exactly once, by one of the num_threads workers.
C4_EachProbeExactlyOnce ==
  /\ \A i \in Probes : calls[i] <= 1
  /\ \A i \in Probes : i >= inp.nv => calls[i] = 0
  /\ main = "returned"
       => \A i \in ProbesOf(inp) : calls[i] = 1 /\ out[i].tid \in 0..(inp.num_threads - 1)

C4_Witness ==
  /\ main = "returned"
  /\ inp.nv = MaxNv
  /\ \E i, j \in ProbesOf(inp) : out[i].tid # out[j].tid

\* C5 as stated: the q handed to f is the start vector normalized to unit norm,
\* the vector loaded into column 0 of the basis.
C5_QIsNormalizedProbe ==
  \A t \in Workers :
    (main = "parallel" /\ w[t].pc = "call")
      => mem[Block(t)].q = Normalized(gen[w[t].i].q)

\* C5 amended: the q handed to f is the work vector of the recurrence, the
\* unnormalized residual of the last executed step: its norm is the beta[j+1]
\* that step computed (q's storage is v's storage, q is not normalized in place).
C5_QIsLastResidual ==
  \A t \in Workers :
    (main = "parallel" /\ w[t].pc = "call")
      => Norm(mem[Block(t)].q) = mem[Block(t)].call.resid

C5_Witness ==
  \E t \in Workers :
    /\ main = "parallel" /\ w[t].pc = "call"
    /\ mem[Block(t)].q # Normalized(gen[w[t].i].q)
    /\ mem[Block(t)].call.resid > 0
    /\ mem[Block(t)].call.j > 0

\* C6: every probe of a call is generated with the distribution passed as dist.
C6_ChosenDistributionUsed ==
  \A i \in Probes : gen[i].tid >= 0 => gen[i].dist = Distributions[inp.dist + 1]

\* C7 as stated: after an early stop at step j*, alpha[j*..k-1] and
\* beta[j*+1..k] hold the values they held before the call.
C7_TailsFromStopStep ==
  (lz.pc = "returned" /\ lz.below >= 0)
    => /\ \A i \in lz.below..(lz.k - 1) : lz.alpha[i] = lz.alpha0[i]
       /\ \A i \in (lz.below + 1)..lz.k : i \in DOMAIN lz.beta => lz.beta[i] = lz.beta0[i]

\* C7 amended: the stopping step j* itself stores alpha[j*] and beta[j*+1]; after
\* an early stop at step j*, alpha[j*+1..k-1] and beta[j*+2..k] hold the values
\* they held before the call, and the call has stored to none of them.
C7_TailsAfterStopStep ==
  (lz.pc = "returned" /\ lz.below >= 0)
    => /\ \A i \in (lz.below + 1)..(lz.k - 1) : lz.alpha[i] = lz.alpha0[i]
       /\ \A i \in (lz.below + 2)..lz.k : i \in DOMAIN lz.beta => lz.beta[i] = lz.beta0[i]
       /\ \A x \in 1..Len(lz.log) :
            /\ lz.log[x][1] = "alpha" => lz.log[x][2] <= lz.below
            /\ lz.log[x][1] = "beta" => lz.log[x][2] <= lz.below + 1

C7_Witness ==
  /\ lz.pc = "returned" /\ lz.below >= 0 /\ lz.below + 1 < lz.k
  /\ lz.alpha0[lz.below + 1] # 0
  /\ lz.alpha[lz.below] # lz.alpha0[lz.below]

\* C8: the values f stores per probe index from (theta, tau) are the same for a
\* call with one worker and a call with more workers: the value stored for probe
\* i depends neither on the number of workers nor on the worker that ran i.
C8_SameForAnyThreadCount ==
  (SecondCallReturned /\ prev.num_threads = 1)
    => \A i \in ProbesOf(inp) :
         out[i].nodes = prev.out[i].nodes /\ out[i].weights = prev.out[i].weights

\* C9: for every rtol >= 0 a step that computes beta[j+1] = 0 is the last one,
\* so nothing is divided by a zero beta and alpha, beta and the basis stay finite.
C9_StopsOnZeroBeta ==
  /\ (lz.pc = "loop" /\ lz.j > 0) => lz.beta[lz.j] # 0
  /\ lz.pc \in {"loop", "returned"}
       => /\ \A i \in DOMAIN lz.alpha : IsFinite(lz.alpha[i])
          /\ \A i \in DOMAIN lz.beta : IsFinite(lz.beta[i])
          /\ \A c \in DOMAIN lz.V : VecAllFinite(lz.V[c])

\* C10: a buffer block is read and written only by the worker that allocated it,
\* and the buffers handed to f for probe i are those of the worker running i.
C10_BuffersPrivate ==
  /\ \A x \in touched : mem[x[2]].owner = x[1]
  /\ \A x, y \in touched : x[2] = y[2] => x[1] = y[1]
  /\ \A i \in Probes :
       calls[i] > 0 => mem[out[i].block].owner = out[i].tid
                       /\ <<out[i].tid, out[i].block>> \in touched

\* C11: beta[0] of a worker is 0 whenever lanczos_recurrence is about to read it
\* at step j = 0 and whenever f is invoked, for every probe on every worker, and
\* no call of the recurrence stores to index 0 of beta.
C11_BetaSentinelZero ==
  \A t \in Workers :
    /\ (main = "parallel" /\ w[t].pc \in {"lanczos", "call"}) => mem[Block(t)].beta[0] = 0
    /\ (main = "parallel" /\ w[t].pc \in {"quad", "call"})
         => \A x \in 1..Len(mem[Block(t)].call.log) :
              mem[Block(t)].call.log[x] # <<"beta", 0>>

\* C12: whenever a step j of lanczos_recurrence starts, the index triple is
\* pos = ((j-1) mod ncv, j mod ncv, (j+1) mod ncv), its three indices are in
\* [0, ncv), the current column differs from the previous and from the next
\* one, and for ncv = 2 the next column is the previous one.
C12_RingBufferTriple ==
  lz.pc = "loop"
    => /\ lz.pos = <<(lz.j + lz.ncv - 1) % lz.ncv, lz.j % lz.ncv, (lz.j + 1) % lz.ncv>>
       /\ \A x \in 1..3 : lz.pos[x] \in 0..(lz.ncv - 1)
       /\ lz.pos[2] # lz.pos[1]
       /\ lz.pos[2] # lz.pos[3]
       /\ lz.ncv = 2 => lz.pos[3] = lz.pos[1]

C12_Witness ==
  /\ lz.pc = "loop" /\ lz.j >= 2
  /\ lz.pos[2] = 0
  /\ lz.pos[3] = lz.pos[1]

StoresTo(log, name) == Cardinality({x \in 1..Len(log) : log[x][1] = name})

\* C13: a step j is the last one exactly when the beta[j+1] it computed is below
\* sqrt(n) * rtol or j+1 = k; the last step writes no column of V and does not
\* rotate pos; the call makes at most k matvec calls and at most k-1 column
\* writes after the initial load of column 0.
C13_StopRule ==
  /\ [](/\ (lz.pc = "returned" /\ lz.matvecs > 0)
             => (FLess(lz.resid, ResidualTol(lz.rtol)) \/ lz.j + 1 = lz.k)
        /\ (lz.pc = "loop" /\ lz.j > 0)
             => (~FLess(lz.resid, ResidualTol(lz.rtol)) /\ lz.j < lz.k)
        /\ lz.pc \in {"loop", "returned"}
             => (lz.matvecs <= lz.k /\ StoresTo(lz.log, "V") - 1 <= lz.k - 1))
  /\ [][(lz.pc = "loop" /\ lz'.pc = "returned")
          => (lz'.V = lz.V /\ lz'.pos = lz.pos
              /\ StoresTo(lz'.log, "V") = StoresTo(lz.log, "V"))]_vars

C13_Witness ==
  /\ lz.pc = "returned"
  /\ lz.j >= 1 /\ lz.j + 1 < lz.k
  /\ FLess(lz.resid, ResidualTol(lz.rtol))
  /\ StoresTo(lz.log, "V") = lz.j + 1

\* the largest m <= k-1 with m mod ncv = i
LastWithResidue(i, k, ncv) == (k - 1) - ((k - 1 - i) % ncv)

\* C14: when lanczos_recurrence has run all k steps (2 <= ncv <= k), column i of
\* V holds the Lanczos vector q_m with m the largest index <= k-1 such that
\* m mod ncv = i, so V holds the last ncv Lanczos vectors q_(k-ncv) .. q_(k-1).
C14_LastVectorsInRollingPositions ==
  (lz.pc = "returned" /\ lz.j + 1 = lz.k)
    => /\ Len(lz.lv) = lz.k
       /\ \A i \in 0..(lz.ncv - 1) :
            /\ LastWithResidue(i, lz.k, lz.ncv) \in (lz.k - lz.ncv)..(lz.k - 1)
            /\ lz.V[i] = lz.lv[LastWithResidue(i, lz.k, lz.ncv) + 1]

C14_Witness ==
  /\ lz.pc = "returned" /\ lz.j + 1 = lz.k
  /\ lz.k > lz.ncv
  /\ lz.V[0] = lz.lv[lz.ncv + 1]
  /\ lz.lv[lz.ncv + 1] # lz.lv[1]
  /\ \A c \in DOMAIN lz.V : VecAllFinite(lz.V[c])

\* the stores of a call to alpha and beta, in program order
TridiagonalStores(log) == SelectSeq(log, LAMBDA e : e[1] \in {"alpha", "beta"})

\* C15: within one call the tridiagonal entries are stored in the order alpha[0],
\* beta[1], alpha[1], beta[2], ..; each alpha[j] and each beta[j+1] is stored at
\* most once and keeps its value once it has been stored.
C15_LeftToRightOnce ==
  /\ [](lz.pc \in {"loop", "returned"}
          => \A x \in 1..Len(TridiagonalStores(lz.log)) :
               TridiagonalStores(lz.log)[x] =
                 IF x % 2 = 1 THEN <<"alpha", (x - 1) \div 2>> ELSE <<"beta", x \div 2>>)
  /\ [][lz.pc = "loop"
          => /\ \A i \in DOMAIN lz.alpha :
                  (\E x \in 1..Len(lz.log) : lz.log[x] = <<"alpha", i>>)
                    => lz'.alpha[i] = lz.alpha[i]
             /\ \A i \in DOMAIN lz.beta :
                  (\E x \in 1..Len(lz.log) : lz.log[x] = <<"beta", i>>)
                    => lz'.beta[i] = lz.beta[i]]_vars

C15_Witness ==
  /\ lz.pc = "returned"
  /\ Len(TridiagonalStores(lz.log)) = 2 * lz.k
  /\ lz.k = MaxK
  /\ \A i \in DOMAIN lz.alpha : lz.alpha[i] # lz.alpha0[i]
  /\ \A i \in 1..(lz.k - 1) : lz.beta[i] # lz.beta0[i]

\* floor(sqrt(nv / num_threads)) over the exact quotient: the largest c with
\* c * c * num_threads <= nv
FloorSqrtOfQuotient(nv, num_threads) ==
  CHOOSE c \in 0..nv : c * c * num_threads <= nv /\ (c + 1) * (c + 1) * num_threads > nv

\* C16: for nv >= 1 and num_threads >= 1 the chunk size computed with integer
\* arithmetic, max(int(sqrt(nv div num_threads)), 1), equals
\* max(1, floor(sqrt(nv / num_threads))) over the exact quotient, and is >= 1.
C16_ChunkSizeIsFloorSqrt ==
  main = "sized"
    => /\ sched.chunk = Max(1, FloorSqrtOfQuotient(inp.nv, inp.num_threads))
       /\ sched.chunk >= 1

C16_Witness ==
  /\ main = "sized"
  /\ sched.chunk >= 2
  /\ inp.nv % inp.num_threads # 0
  /\ (sched.chunk + 1) * (sched.chunk + 1) * inp.num_threads
       <= inp.nv + inp.num_threads - (inp.nv % inp.num_threads)

\* what a worker hands to f for the probe vector q when q is the first probe it
\* processes: the recurrence and the quadrature on the buffers as allocated
FreshBlock(q) ==
  [q |-> q, Q |-> [c \in 0..(inp.ncv - 1) |-> ZeroVec],
   alpha |-> ZeroArray(AlphaLen(inp.k)), beta |-> ZeroArray(BetaLen(inp.k))]

QuadratureOf(res) == lanczos_quadrature(res.alpha, res.beta, inp.k)

FirstProbeQuadrature(q) == QuadratureOf(lanczos_recurrence(CallOn(FreshBlock(q))))

\* C17: the (theta, tau) delivered to f for a probe depend only on the probe's
\* vector q and on (A, k, rtol, orth, ncv): they are what the same q gives as the
\* first probe of a worker, whatever probes the worker processed before.
C17_QuadratureFromProbeOnly ==
  \A i \in Probes :
    calls[i] > 0
      => /\ out[i].nodes = FirstProbeQuadrature(gen[i].q).nodes
         /\ out[i].weights = FirstProbeQuadrature(gen[i].q).weights

\* C18: at every step of every probe with orth > 0, each column the
\* re-orthogonalization reads holds a Lanczos vector produced earlier in the same
\* probe or all zeros, never a vector an earlier probe left in the worker's Q.
C18_OrthReadsOwnOrZeroColumns ==
  \A b \in Workers :
    (main = "parallel" /\ mem[b].call.pc = "returned") => mem[b].call.foreign = {}

====
